---- MODULE Spec2Model ----
(***************************************************************************)
(* A model of halotools/read_nbody.py: the Catalog_Manager (snapshot       *)
(* locator and catalog loader) and the processed_snapshot facade.          *)
(*                                                                         *)
(* Representation.                                                         *)
(*  - A Python string is a sequence of one-character strings, so that the  *)
(*    code's slicing, indexing and concatenation are modelled as such.     *)
(*  - None is the empty sequence where a string is expected and NoneNum    *)
(*    where a number is expected.  The empty string is never an input.     *)
(*  - A scale factor is an integer number of 1e-4 units (0.7500 is 7500).  *)
(*    The inputs are chosen so that the code's float arithmetic is exact   *)
(*    on them or decides every comparison by a margin far above rounding   *)
(*    error: cached scale factors and tie-producing requests are multiples *)
(*    of 1/16, and no distance equals the tolerance.                       *)
(*  - A redshift is an integer number of 1e-2 units.                       *)
(*  - A particle count is its sequence of decimal digits, most significant *)
(*    first, because counts near 10^10 exceed the checker's integers.      *)
(***************************************************************************)
EXTENDS Integers, Sequences, FiniteSets, TLC

VARIABLES
    halosDir,       \* the halos cache directory: files in listing order
    particlesDir,   \* the particles cache directory: files in listing order
    op,             \* name of the last call made on the program
    arg,            \* its arguments
    ret,            \* its outcome: a returned value or a raised exception
    fetched,        \* remote URLs opened during the last call, in order
    written,        \* local files opened for writing during the last call
    warned,         \* warnings emitted during the last call
    listed,         \* number of cache listings read during the last call
    bulk            \* number of download_all_default_catalogs invocations

vars == <<halosDir, particlesDir, op, arg, ret, fetched, written, warned, listed, bulk>>

-----------------------------------------------------------------------------
(* Python values *)

None == <<>>
NoneNum == 0 - 1

Return(v) == [status |-> "return", exc |-> "", value |-> v]
Raise(e) == [status |-> "raise", exc |-> e, value |-> None]

Min(a, b) == IF a < b THEN a ELSE b
Max(a, b) == IF a > b THEN a ELSE b
Abs(x) == IF x < 0 THEN 0 - x ELSE x

\* s[i:j] with Python's treatment of negative and out-of-range bounds
PySlice(s, i, j) ==
    LET n == Len(s)
        lo == IF i < 0 THEN Max(i + n, 0) ELSE Min(i, n)
        hi == IF j < 0 THEN Max(j + n, 0) ELSE Min(j, n)
    IN IF lo < hi THEN SubSeq(s, lo + 1, hi) ELSE <<>>

\* s[-k:] for k > 0
PySuffix(s, k) == PySlice(s, 0 - k, Len(s))

S_halo == <<"h", "a", "l", "o">>
S_halos == <<"h", "a", "l", "o", "s">>
S_particle == <<"p", "a", "r", "t", "i", "c", "l", "e">>
S_particles == <<"p", "a", "r", "t", "i", "c", "l", "e", "s">>
S_fits == <<".", "f", "i", "t", "s">>
S_a == <<"_", "a">>
S_us == <<"_">>
S_halos_fits == <<"_", "h", "a", "l", "o", "s", ".", "f", "i", "t", "s">>
S_particles_fits == <<"_", "p", "a", "r", "t", "i", "c", "l", "e", "s", ".", "f", "i", "t", "s">>
S_bolshoi == <<"b", "o", "l", "s", "h", "o", "i">>
S_bolshoi2 == <<"b", "o", "l", "s", "h", "o", "i", "2">>
S_rockstar == <<"r", "o", "c", "k", "s", "t", "a", "r">>
S_bdm == <<"b", "d", "m">>
S_e == <<"e">>
S_dot == <<".">>
DIGITS == <<"0", "1", "2", "3", "4", "5", "6", "7", "8", "9">>

DigitChar(d) == DIGITS[d + 1]
IsDigit(c) == \E d \in 0..9 : DIGITS[d + 1] = c
DigitVal(c) == CHOOSE d \in 0..9 : DIGITS[d + 1] = c

\* str(k) of a non-negative int
RECURSIVE PyStrInt(_)
PyStrInt(k) == IF k < 10 THEN <<DigitChar(k)>> ELSE PyStrInt(k \div 10) \o <<DigitChar(k % 10)>>

RECURSIVE StripZeros(_)
StripZeros(s) == IF Len(s) > 1 /\ s[Len(s)] = "0" THEN StripZeros(SubSeq(s, 1, Len(s) - 1)) ELSE s

\* the four decimals of a scale factor, zero-padded
Frac4(x) ==
    LET f == x % 10000
    IN <<DigitChar(f \div 1000), DigitChar((f \div 100) % 10), DigitChar((f \div 10) % 10), DigitChar(f % 10)>>

\* str(np.round(x, 4)): the shortest decimal, which drops trailing zeros
StrRound4(x) == PyStrInt(x \div 10000) \o S_dot \o StripZeros(Frac4(x))

\* float(s) for the text "d.dddd" of a cached scale factor; any other text
\* found at the fixed offset is not a number
PyFloat(s) ==
    IF /\ Len(s) = 6
       /\ s[2] = "."
       /\ \A k \in {1, 3, 4, 5, 6} : IsDigit(s[k])
    THEN Return(DigitVal(s[1]) * 10000 + DigitVal(s[3]) * 1000 + DigitVal(s[4]) * 100
                + DigitVal(s[5]) * 10 + DigitVal(s[6]))
    ELSE Raise("ValueError")

-----------------------------------------------------------------------------
(* The defaults module (not part of the sources at hand) *)

default_simulation_name == S_bolshoi
default_halo_finder == S_rockstar
default_scale_factor == 10003
default_numptcl == <<2, 0, 0, 0, 0, 0>>
scale_factor_difference_tol == 500
aph_web_location == "aph_web_location"

-----------------------------------------------------------------------------
(* Catalog_Manager.numptcl_to_string *)

TruncatedQuotient(numptcl, ipower) ==
    LET L == Len(numptcl)
        nint == IF ipower < L THEN L - ipower ELSE 0
    IN IF nint >= 2 THEN 10 ELSE IF nint = 1 THEN numptcl[1] ELSE 0

\* np.round(numptcl / 10.**ipower), rounding halves to even.  The code only
\* compares a quotient of two or more digits with 10, so the quotient is cut
\* at 10 here: it never has to be held as one integer.
reduced_numptcl(numptcl, ipower) ==
    LET L == Len(numptcl)
        nint == IF ipower < L THEN L - ipower ELSE 0          \* digits before the point
        units == IF nint >= 1 THEN numptcl[nint] ELSE 0
        f1 == IF ipower >= 1 /\ ipower <= L THEN numptcl[L - ipower + 1] ELSE 0
        rest == IF ipower >= 2 /\ ipower <= L
                THEN \E k \in (L - ipower + 2)..L : numptcl[k] # 0
                ELSE FALSE
        up == \/ f1 > 5
              \/ f1 = 5 /\ rest
              \/ f1 = 5 /\ ~rest /\ units % 2 = 1
    IN IF nint >= 2 THEN 10 ELSE units + (IF up THEN 1 ELSE 0)

\* the while loop: the value of ipower when it exits
RECURSIVE oom_loop(_, _)
oom_loop(numptcl, ipower) ==
    IF reduced_numptcl(numptcl, ipower) < 10
    THEN ipower + 1
    ELSE oom_loop(numptcl, ipower + 1)

numptcl_to_string(numptcl) ==
    LET ipower == oom_loop(numptcl, 0)
        power == ipower - 1
        ce == PyStrInt(power)
        cp == PyStrInt(reduced_numptcl(numptcl, power))
    IN cp \o S_e \o ce

-----------------------------------------------------------------------------
(* Catalog_Manager.__init__ *)

default_halo_catalog_filename ==
    default_simulation_name \o S_a \o StrRound4(default_scale_factor) \o S_us
        \o default_halo_finder \o S_halos_fits

default_particle_catalog_filename ==
    default_simulation_name \o S_a \o StrRound4(default_scale_factor) \o S_us
        \o numptcl_to_string(default_numptcl) \o S_particles_fits

-----------------------------------------------------------------------------------------------------------------------------------------------------
(* The file system and the effects of a call.  A directory is the sequence  *)
(* of its files in listing order, each [name, data].  A world w carries the *)
(* two cache directories and the trace of the call in progress.             *)

World(h, p) ==
    [halos |-> h, particles |-> p, fetched |-> <<>>, written |-> <<>>,
     warned |-> <<>>, listed |-> 0, bulk |-> 0]

Names(dir) == [i \in 1..Len(dir) |-> dir[i].name]

\* configuration.get_catalogs_dir: the cache directory of a catalog kind
get_catalogs_dir(catalog_type) ==
    IF catalog_type = S_particles THEN "particles" ELSE "halos"

DirOf(w, dirname) == IF dirname = "particles" THEN w.particles ELSE w.halos

\* configuration.list_of_catalogs_in_cache: the listing of the kind's cache
\* directory; with no kind given, of both
list_of_catalogs_in_cache(w, catalog_type) ==
    IF catalog_type = S_halos THEN Names(w.halos)
    ELSE IF catalog_type = S_particles THEN Names(w.particles)
    ELSE Names(w.halos) \o Names(w.particles)

warn(w, msg) == [w EXCEPT !.warned = Append(@, msg)]

-----------------------------------------------------------------------------
(* Catalog_Manager.get_simulation_properties *)

get_simulation_properties(simname) ==
    IF simname = S_bolshoi
    THEN [Lbox |-> 250, particle_mass |-> 135000000, softening |-> 1]
    ELSE [Lbox |-> NoneNum, particle_mass |-> NoneNum, softening |-> NoneNum]

-----------------------------------------------------------------------------
(* Catalog_Manager.identify_relevant_catalogs *)

\* the pluralization fix at the head of both locator methods
FixPluralization(catalog_type) ==
    IF catalog_type = S_halo THEN S_halos
    ELSE IF catalog_type = S_particle THEN S_particles
    ELSE catalog_type

\* halos vs. particles restriction: TRUE when the file keeps its mask bit
KindMask(c, catalog_type) ==
    catalog_type # None =>
        PySuffix(c, Len(catalog_type) + 5) = catalog_type \o S_fits

\* c[len(simname)] is evaluated only when the prefix matches, and is out of
\* range when the name ends there
SimnameIndexError(c, simname) ==
    simname # None /\ PySlice(c, 0, Len(simname)) = simname /\ Len(c) <= Len(simname)

SimnameMaskPrefixOnly(c, simname) ==
    simname # None => ~(PySlice(c, 0, Len(simname)) # simname)

SimnameMask(c, simname) ==
    simname # None =>
        ~(PySlice(c, 0, Len(simname)) # simname \/ c[Len(simname) + 1] # "_")

HaloFinderMask(c, halo_finder) ==
    halo_finder # None =>
        PySlice(c, 0 - 11 - Len(halo_finder), 0 - 11) = halo_finder

\* available_catalogs[file_mask]
RECURSIVE MaskSelect(_, _)
MaskSelect(a, mask) ==
    IF Len(a) = 0 THEN <<>>
    ELSE LET rest == MaskSelect(SubSeq(a, 1, Len(a) - 1), mask)
         IN IF mask[Len(a)] THEN Append(rest, a[Len(a)]) ELSE rest

identify_relevant_catalogs(w, catalog_type0, simname, halo_finder) ==
    LET catalog_type == FixPluralization(catalog_type0)
        available_catalogs == list_of_catalogs_in_cache(w, catalog_type)
        w1 == [w EXCEPT !.listed = @ + 1]
        N == Len(available_catalogs)
        file_mask == [ii \in 1..N |->
                        /\ KindMask(available_catalogs[ii], catalog_type)
                        /\ SimnameMask(available_catalogs[ii], simname)
                        /\ HaloFinderMask(available_catalogs[ii], halo_finder)]
    IN IF \E ii \in 1..N : SimnameIndexError(available_catalogs[ii], simname)
       THEN [w |-> w1, out |-> Raise("IndexError")]
       ELSE [w |-> w1, out |-> Return(MaskSelect(available_catalogs, file_mask))]

-----------------------------------------------------------------------------
(* Catalog_Manager.find_nearest_snapshot_in_cache *)

\* scale_factor = 1./(1.+redshift)
ScaleFactorOfRedshift(redshift) == 1000000 \div (100 + redshift)

ResolveScaleFactorLenient(scale_factor, redshift) ==
    IF scale_factor = NoneNum
    THEN IF redshift = NoneNum
         THEN Raise("IOError")
         ELSE Return(ScaleFactorOfRedshift(redshift))
    ELSE Return(scale_factor)

\* the argument check: the scale factor to look for, or the error raised
ResolveScaleFactor(scale_factor, redshift) ==
    IF scale_factor = NoneNum
    THEN IF redshift = NoneNum
         THEN Raise("IOError")
         ELSE Return(ScaleFactorOfRedshift(redshift))
    ELSE IF redshift # NoneNum
         THEN Raise("IOError")
         ELSE Return(scale_factor)

\* [float(a[first:last]) for a in relevant_catalogs]
available_snapshots(relevant_catalogs, simname) ==
    LET first_scale_factor_index == Len(simname) + 2
        last_scale_factor_index == first_scale_factor_index + 6
    IN [i \in 1..Len(relevant_catalogs) |->
          PyFloat(PySlice(relevant_catalogs[i], first_scale_factor_index, last_scale_factor_index))]

ArgminAbsLast(snapshots, scale_factor) ==
    CHOOSE i \in 1..Len(snapshots) :
        /\ \A j \in 1..Len(snapshots) :
              Abs(snapshots[i] - scale_factor) <= Abs(snapshots[j] - scale_factor)
        /\ \A j \in (i + 1)..Len(snapshots) :
              Abs(snapshots[j] - scale_factor) > Abs(snapshots[i] - scale_factor)

\* np.abs(np.array(snapshots) - scale_factor).argmin(): the first index of the
\* least distance (1-based here)
ArgminAbs(snapshots, scale_factor) ==
    CHOOSE i \in 1..Len(snapshots) :
        /\ \A j \in 1..Len(snapshots) :
              Abs(snapshots[i] - scale_factor) <= Abs(snapshots[j] - scale_factor)
        /\ \A j \in 1..(i - 1) :
              Abs(snapshots[j] - scale_factor) > Abs(snapshots[i] - scale_factor)

\* the selection and the tolerance warning, lines 354-367
NearestSnapshot(w, relevant_catalogs, snapshots, scale_factor) ==
    LET idx_nearest_snapshot == ArgminAbs(snapshots, scale_factor)
        nearest_snapshot == snapshots[idx_nearest_snapshot]
        filename_of_nearest_snapshot == relevant_catalogs[idx_nearest_snapshot]
        adiff == Abs(nearest_snapshot - scale_factor)
        w1 == IF adiff > scale_factor_difference_tol THEN warn(w, "closest match") ELSE w
    IN [w |-> w1,
        out |-> Return([filename |-> filename_of_nearest_snapshot, snapshot |-> nearest_snapshot])]

ZeroCatalogsHalosOnly(w, catalog_type) ==
    IF catalog_type = S_halos
    THEN [w |-> warn(w, "zero halo catalogs"), returned |-> TRUE]
    ELSE [w |-> w, returned |-> FALSE]

\* the handling of an empty candidate list, lines 340-346: the early return,
\* or nothing when the kind is neither 'halos' nor 'particles'
ZeroCatalogs(w, catalog_type) ==
    IF catalog_type = S_halos
    THEN [w |-> warn(w, "zero halo catalogs"), returned |-> TRUE]
    ELSE IF catalog_type = S_particles
    THEN [w |-> warn(w, "zero particle catalogs"), returned |-> TRUE]
    ELSE [w |-> w, returned |-> FALSE]

NoneNone == [filename |-> None, snapshot |-> NoneNum]

\* lines 338-367, once the candidates are identified
NearestOf(found, catalog_type, scale_factor, simname) ==
    LET relevant_catalogs == found.out.value
        zero == ZeroCatalogs(found.w, catalog_type)
        parsed == available_snapshots(relevant_catalogs, simname)
        snapshots == [i \in 1..Len(parsed) |-> parsed[i].value]
    IN IF found.out.status = "raise" THEN found
       ELSE IF Len(relevant_catalogs) = 0 /\ zero.returned
       THEN [w |-> zero.w, out |-> Return(NoneNone)]
       ELSE IF \E i \in 1..Len(parsed) : parsed[i].status = "raise"
       THEN [w |-> found.w, out |-> Raise("ValueError")]
       ELSE IF Len(snapshots) = 0
       THEN [w |-> found.w, out |-> Raise("ValueError")]   \* argmin of an empty array
       ELSE NearestSnapshot(found.w, relevant_catalogs, snapshots, scale_factor)

\* the body after the argument check, lines 332-367
LookupNearest(w, catalog_type, scale_factor, simname, halo_finder0) ==
    LET halo_finder == IF catalog_type = S_particles THEN None ELSE halo_finder0
    IN NearestOf(identify_relevant_catalogs(w, catalog_type, simname, halo_finder),
                 catalog_type, scale_factor, simname)

find_nearest_snapshot_in_cache(w, catalog_type0, scale_factor0, redshift, simname, halo_finder) ==
    LET catalog_type == FixPluralization(catalog_type0)
        scale_factor == ResolveScaleFactor(scale_factor0, redshift)
    IN IF scale_factor.status = "raise"
       THEN [w |-> w, out |-> scale_factor]
       ELSE LookupNearest(w, catalog_type, scale_factor.value, simname, halo_finder)

-----------------------------------------------------------------------------------------------------------------------------------------------------
(* Files, the remote archive and the table reader *)

isfile(w, dirname, filename) ==
    \E i \in 1..Len(DirOf(w, dirname)) : DirOf(w, dirname)[i].name = filename

DataOf(w, dirname, filename) ==
    LET dir == DirOf(w, dirname)
    IN dir[CHOOSE i \in 1..Len(dir) : dir[i].name = filename].data

SetDir(w, dirname, dir) ==
    IF dirname = "particles" THEN [w EXCEPT !.particles = dir] ELSE [w EXCEPT !.halos = dir]

\* the directory after filename holds data: an existing file keeps its place
\* in the listing, a new one appears first or last
Store(dir, filename, data, front) ==
    IF \E i \in 1..Len(dir) : dir[i].name = filename
    THEN [i \in 1..Len(dir) |-> IF dir[i].name = filename THEN [dir[i] EXCEPT !.data = data] ELSE dir[i]]
    ELSE IF front THEN <<[name |-> filename, data |-> data]>> \o dir
    ELSE Append(dir, [name |-> filename, data |-> data])

\* what the archive does with a request: the two default catalogs are the
\* only files it hosts
Outcome(env, filename) ==
    IF filename = default_halo_catalog_filename THEN env.halos
    ELSE IF filename = default_particle_catalog_filename THEN env.particles
    ELSE "open_fails"

\* fits.open(path) and Table(hdulist[1].data): a file without content has no
\* table
ReadTable(w, dirname, filename) ==
    IF DataOf(w, dirname, filename) = "empty"
    THEN Raise("IOError")
    ELSE Return(<<"Table", DataOf(w, dirname, filename)>>)

\* urlopen, open(..., 'wb'), write(fileobj.read()), close: lines 451-457,
\* 478-482 and 491-495.  open creates or truncates the file before the body
\* is read.
FetchToCache(w, url, filename, output_directory, env) ==
    LET w1 == [w EXCEPT !.fetched = Append(@, <<url, filename>>)]
        w2 == [SetDir(w1, output_directory,
                      Store(DirOf(w1, output_directory), filename, "empty", env.front))
                 EXCEPT !.written = Append(@, <<output_directory, filename>>)]
        w3 == SetDir(w2, output_directory,
                     Store(DirOf(w2, output_directory), filename, "archive", env.front))
    IN IF Outcome(env, filename) = "open_fails" THEN [w |-> w1, out |-> Raise("URLError")]
       ELSE IF Outcome(env, filename) = "read_fails" THEN [w |-> w2, out |-> Raise("socket.error")]
       ELSE [w |-> w3, out |-> Return(None)]

-----------------------------------------------------------------------------
(* Catalog_Manager.load_catalog *)

\* lines 444-449: an if, then an if with an else
DownloadCatalogType(filename) ==
    LET catalog_type == IF filename = default_halo_catalog_filename THEN S_halos ELSE None
    IN IF filename = default_particle_catalog_filename
       THEN Return(S_particles)
       ELSE Raise("IOError")

\* lines 451-459
DownloadAndRead(w, url, filename, catalog_type, env) ==
    LET output_directory == get_catalogs_dir(catalog_type)
        got == FetchToCache(w, url, filename, output_directory, env)
    IN IF got.out.status = "raise" THEN got
       ELSE [w |-> got.w, out |-> ReadTable(got.w, output_directory, filename)]

LoadRefetching(w, dirname, filename0, download_yn, url, env) ==
    LET filename == IF filename0 = None THEN default_halo_catalog_filename ELSE filename0
        catalog_type == DownloadCatalogType(filename)
    IN IF isfile(w, dirname, filename) /\ ~download_yn
       THEN [w |-> w, out |-> ReadTable(w, dirname, filename)]
       ELSE IF ~download_yn
       THEN [w |-> w, out |-> Return(None)]
       ELSE IF catalog_type.status = "raise"
       THEN [w |-> w, out |-> catalog_type]
       ELSE DownloadAndRead(w, url, filename, catalog_type.value, env)

LoadFetchingAnything(w, dirname, filename0, download_yn, url, env) ==
    LET filename == IF filename0 = None THEN default_halo_catalog_filename ELSE filename0
    IN IF isfile(w, dirname, filename)
       THEN [w |-> w, out |-> ReadTable(w, dirname, filename)]
       ELSE IF ~download_yn
       THEN [w |-> w, out |-> Return(None)]
       ELSE DownloadAndRead(w, url, filename, S_halos, env)

load_catalog(w, dirname, filename0, download_yn, url, env) ==
    LET filename == IF filename0 = None THEN default_halo_catalog_filename ELSE filename0
        catalog_type == DownloadCatalogType(filename)
    IN IF isfile(w, dirname, filename)
       THEN [w |-> w, out |-> ReadTable(w, dirname, filename)]
       ELSE IF ~download_yn
       THEN [w |-> w, out |-> Return(None)]
       ELSE IF catalog_type.status = "raise"
       THEN [w |-> w, out |-> catalog_type]
       ELSE DownloadAndRead(w, url, filename, catalog_type.value, env)

-----------------------------------------------------------------------------
(* Catalog_Manager.download_all_default_catalogs *)

DownloadAlways(w, catalog_type, filename, msg, env) ==
    FetchToCache(warn(w, msg), aph_web_location, filename, get_catalogs_dir(catalog_type), env)

\* one of the two blocks, lines 472-482 and 485-495
DownloadIfAbsent(w, catalog_type, filename, msg, env) ==
    LET output_directory == get_catalogs_dir(catalog_type)
    IN IF ~isfile(w, output_directory, filename)
       THEN FetchToCache(warn(w, msg), aph_web_location, filename, output_directory, env)
       ELSE [w |-> w, out |-> Return(None)]

download_all_default_catalogs(w, env) ==
    LET w0 == [w EXCEPT !.bulk = @ + 1]
        h == DownloadIfAbsent(w0, S_halos, default_halo_catalog_filename,
                              "downloading default halo catalog", env)
    IN IF h.out.status = "raise" THEN h
       ELSE DownloadIfAbsent(h.w, S_particles, default_particle_catalog_filename,
                             "downloading default particle catalog", env)

-----------------------------------------------------------------------------
(* processed_snapshot.__init__ *)

\* lines 57-63 and 75-81: the file a lookup resolves to, and whether the
\* defaults are to be downloaded
IsFallbackNoMatchOnly(found, scale_factor) == found.filename = None

IsFallback(found, scale_factor) ==
    found.filename = None \/ found.snapshot # scale_factor

\* the outcome of the download, when there is one, decides the block's
Fallback(d, default_filename) ==
    [w |-> d.w, out |-> IF d.out.status = "raise" THEN d.out ELSE Return(default_filename)]

\* lines 57-65 and 75-83, given the outcome of the lookup
Resolve(nearest, scale_factor, default_filename, download_yn, env) ==
    IF nearest.out.status = "raise" THEN nearest
    ELSE IF IsFallback(nearest.out.value, scale_factor)
    THEN Fallback(IF download_yn THEN download_all_default_catalogs(nearest.w, env)
                  ELSE [w |-> nearest.w, out |-> Return(None)], default_filename)
    ELSE [w |-> nearest.w, out |-> Return(nearest.out.value.filename)]

\* one of the two blocks, lines 50-65 (halos) and 68-83 (particles)
catalog_filename(w, catalog_type, default_filename, simname, scale_factor, halo_finder, download_yn, env) ==
    Resolve(find_nearest_snapshot_in_cache(w, catalog_type, scale_factor, NoneNum, simname, halo_finder),
            scale_factor, default_filename, download_yn, env)

processed_snapshot(w, simname, scale_factor, halo_finder, download_yn, env) ==
    LET props == get_simulation_properties(simname)
        h == catalog_filename(w, S_halos, default_halo_catalog_filename,
                              simname, scale_factor, halo_finder, download_yn, env)
        p == catalog_filename(h.w, S_particles, default_particle_catalog_filename,
                              simname, scale_factor, halo_finder, download_yn, env)
    IN IF h.out.status = "raise" THEN h
       ELSE IF p.out.status = "raise" THEN p
       ELSE [w |-> p.w,
             out |-> Return([simulation_name |-> simname,
                             scale_factor |-> scale_factor,
                             halo_finder |-> halo_finder,
                             download_yn |-> download_yn,
                             Lbox |-> props.Lbox,
                             particle_mass |-> props.particle_mass,
                             softening_length |-> props.softening,
                             halo_catalog_filename |-> h.out.value,
                             halo_catalog_dirname |-> get_catalogs_dir(S_halos),
                             particle_catalog_filename |-> p.out.value,
                             particle_catalog_dirname |-> get_catalogs_dir(S_particles)])]

-----
(* Cached files.  Names follow the convention                               *)
(*   {simname}_a{scale_factor:.4f}_{halo_finder}_halos.fits                 *)
(*   {simname}_a{scale_factor:.4f}_{numptcl_code}_particles.fits            *)

Format4f(x) == PyStrInt(x \div 10000) \o S_dot \o Frac4(x)

HaloFilename(simname, a, halo_finder) ==
    simname \o S_a \o Format4f(a) \o S_us \o halo_finder \o S_halos_fits

ParticleFilename(simname, a, numptcl) ==
    simname \o S_a \o Format4f(a) \o S_us \o numptcl_to_string(numptcl) \o S_particles_fits

CachedFile(name) == [name |-> name, data |-> "cached"]

\* files that may lie in the halos directory: two snapshots of the default
\* simulation and halo finder, one of another halo finder, one of a simulation
\* whose name only starts like the default one, and a particle catalog put
\* in the wrong directory
HaloDirNames ==
    { HaloFilename(S_bolshoi, 5000, S_rockstar),
      HaloFilename(S_bolshoi, 7500, S_rockstar),
      HaloFilename(S_bolshoi, 7500, S_bdm),
      HaloFilename(S_bolshoi2, 7500, S_rockstar),
      ParticleFilename(S_bolshoi, 7500, <<2, 0, 0, 0, 0, 0>>) }

\* files that may lie in the particles directory: two downsamplings of one
\* snapshot and another snapshot
ParticleDirNames ==
    { ParticleFilename(S_bolshoi, 7500, <<2, 0, 0, 0, 0, 0>>),
      ParticleFilename(S_bolshoi, 7500, <<5, 0, 0, 0, 0, 0, 0, 0>>),
      ParticleFilename(S_bolshoi, 5000, <<2, 0, 0, 0, 0, 0>>) }

MaxCached == 2

\* listings of at most n distinct files named in S, in every order
Listings(S, n) ==
    { [i \in 1..Len(s) |-> CachedFile(s[i])] :
        s \in { t \in UNION { [1..k -> S] : k \in 0..n } :
                  \A i, j \in 1..Len(t) : i # j => t[i] # t[j] } }

-----------------------------------------------------------------------------
(* The locator on a given cache: one call per behaviour, the call drawn with *)
(* the cache in the initial state.                                           *)

CatalogTypes == {S_halos, S_halo, S_particles, S_particle, None}

\* (scale_factor, redshift): one of them, neither, both
ScaleArgs ==
    { <<a, NoneNum>> : a \in {5000, 6250, 7500, 7600} }
        \cup { <<NoneNum, z>> : z \in {0, 100, 300} }
        \cup { <<NoneNum, NoneNum>>, <<7500, 100>>, <<5000, 100>> }

FindCalls ==
    { [call |-> "find_nearest_snapshot_in_cache", catalog_type |-> ct,
       scale_factor |-> sz[1], redshift |-> sz[2], simname |-> sim, halo_finder |-> hf] :
        ct \in CatalogTypes, sz \in ScaleArgs,
        sim \in {S_bolshoi, S_bolshoi2}, hf \in {S_rockstar, S_bdm} }

IdentifyCalls ==
    { [call |-> "identify_relevant_catalogs", catalog_type |-> ct,
       simname |-> sim, halo_finder |-> hf] :
        ct \in CatalogTypes,
        sim \in {None, S_bolshoi, S_bolshoi2}, hf \in {None, S_rockstar, S_bdm} }

InitLocator ==
    /\ halosDir \in Listings(HaloDirNames, MaxCached)
    /\ particlesDir \in Listings(ParticleDirNames, MaxCached)
    /\ op = "pending"
    /\ arg \in FindCalls \cup IdentifyCalls
    /\ ret = Return(None)
    /\ fetched = <<>>
    /\ written = <<>>
    /\ warned = <<>>
    /\ listed = 0
    /\ bulk = 0

\* the state after a call that ended in world w with outcome out
Ended(name, w, out) ==
    /\ op' = name
    /\ ret' = out
    /\ halosDir' = w.halos
    /\ particlesDir' = w.particles
    /\ fetched' = w.fetched
    /\ written' = w.written
    /\ warned' = w.warned
    /\ listed' = w.listed
    /\ bulk' = w.bulk

FindNearest ==
    /\ op = "pending"
    /\ arg.call = "find_nearest_snapshot_in_cache"
    /\ LET r == find_nearest_snapshot_in_cache(World(halosDir, particlesDir),
                    arg.catalog_type, arg.scale_factor, arg.redshift,
                    arg.simname, arg.halo_finder)
       IN Ended(arg.call, r.w, r.out)
    /\ UNCHANGED arg

IdentifyRelevant ==
    /\ op = "pending"
    /\ arg.call = "identify_relevant_catalogs"
    /\ LET r == identify_relevant_catalogs(World(halosDir, particlesDir),
                    arg.catalog_type, arg.simname, arg.halo_finder)
       IN Ended(arg.call, r.w, r.out)
    /\ UNCHANGED arg

NextLocator == FindNearest \/ IdentifyRelevant

SpecLocator == InitLocator /\ [][NextLocator]_vars

-----------------------------------------------------------------------------
(* The loader: any sequence of load_catalog and                             *)
(* download_all_default_catalogs calls on a cache that starts with some of  *)
(* the default catalogs and some other catalogs.                            *)

Outcomes == {"ok", "open_fails", "read_fails"}

\* how the archive answers during a call, and where a new file lists
Envs == [halos : Outcomes, particles : Outcomes, front : BOOLEAN]

LoaderHaloNames ==
    { default_halo_catalog_filename, HaloFilename(S_bolshoi, 7500, S_rockstar) }

LoaderParticleNames ==
    { default_particle_catalog_filename, ParticleFilename(S_bolshoi, 7500, <<2, 0, 0, 0, 0, 0>>) }

LoadFilenames == {None} \cup LoaderHaloNames \cup LoaderParticleNames

\* load_catalog opens at most one URL: one answer of the archive is enough
LoadEnvs == { env \in Envs : env.halos = env.particles }

Init ==
    /\ halosDir \in Listings(LoaderHaloNames, MaxCached)
    /\ particlesDir \in Listings(LoaderParticleNames, MaxCached)
    /\ op = "none"
    /\ arg = None
    /\ ret = Return(None)
    /\ fetched = <<>>
    /\ written = <<>>
    /\ warned = <<>>
    /\ listed = 0
    /\ bulk = 0

LoadCatalog ==
    \E dirname \in {"halos", "particles"}, filename \in LoadFilenames,
       download_yn \in BOOLEAN, env \in LoadEnvs :
        /\ arg' = [dirname |-> dirname, filename |-> filename,
                   download_yn |-> download_yn, url |-> aph_web_location, env |-> env]
        /\ LET r == load_catalog(World(halosDir, particlesDir), dirname, filename,
                                 download_yn, aph_web_location, env)
           IN Ended("load_catalog", r.w, r.out)

DownloadAllDefaultCatalogs ==
    \E env \in Envs :
        /\ arg' = [env |-> env]
        /\ LET r == download_all_default_catalogs(World(halosDir, particlesDir), env)
           IN Ended("download_all_default_catalogs", r.w, r.out)

Next == LoadCatalog \/ DownloadAllDefaultCatalogs

Spec == Init /\ [][Next]_vars

-----------------------------------------------------------------------------
(* The facade: one construction per behaviour, drawn with the cache in the  *)
(* initial state.                                                           *)

FacadeHaloNames ==
    { default_halo_catalog_filename,
      HaloFilename(S_bolshoi, 5000, S_rockstar),
      HaloFilename(S_bolshoi, 7500, S_rockstar),
      HaloFilename(S_bolshoi, 7500, S_bdm) }

FacadeParticleNames ==
    { default_particle_catalog_filename, ParticleFilename(S_bolshoi, 7500, <<2, 0, 0, 0, 0, 0>>) }

SnapshotCalls ==
    [call : {"processed_snapshot"},
     simname : {S_bolshoi, S_bolshoi2},
     scale_factor : {NoneNum, 7500, 7600, default_scale_factor},
     halo_finder : {S_rockstar, S_bdm},
     download_yn : BOOLEAN,
     env : Envs]

InitFacade ==
    /\ halosDir \in Listings(FacadeHaloNames, MaxCached)
    /\ particlesDir \in Listings(FacadeParticleNames, MaxCached)
    /\ op = "pending"
    /\ arg \in SnapshotCalls
    /\ ret = Return(None)
    /\ fetched = <<>>
    /\ written = <<>>
    /\ warned = <<>>
    /\ listed = 0
    /\ bulk = 0

ProcessedSnapshot ==
    /\ op = "pending"
    /\ arg.call = "processed_snapshot"
    /\ LET r == processed_snapshot(World(halosDir, particlesDir), arg.simname,
                    arg.scale_factor, arg.halo_finder, arg.download_yn, arg.env)
       IN Ended(arg.call, r.w, r.out)
    /\ UNCHANGED arg

NextFacade == ProcessedSnapshot

SpecFacade == InitFacade /\ [][NextFacade]_vars

-----
(* Particle counts given to numptcl_to_string *)

MaxDigits == 10

\* a leading digit, a second digit, and one digit repeated to the end
NumptclInputs ==
    { [k \in 1..L |-> IF k = 1 THEN a ELSE IF k = 2 THEN b ELSE c] :
        L \in 1..MaxDigits, a \in 1..9, b \in 0..9, c \in {0, 1, 9} }

InitNum ==
    /\ halosDir = <<>>
    /\ particlesDir = <<>>
    /\ op = "pending"
    /\ arg \in [call : {"numptcl_to_string"}, numptcl : NumptclInputs]
    /\ ret = Return(None)
    /\ fetched = <<>>
    /\ written = <<>>
    /\ warned = <<>>
    /\ listed = 0
    /\ bulk = 0

NumptclToString ==
    /\ op = "pending"
    /\ arg.call = "numptcl_to_string"
    /\ op' = arg.call
    /\ ret' = Return(numptcl_to_string(arg.numptcl))
    /\ UNCHANGED <<arg, halosDir, particlesDir, fetched, written, warned, listed, bulk>>

NextNum == NumptclToString

SpecNum == InitNum /\ [][NextNum]_vars

-----------------------------------------------------------------------------
(* Properties of the locator, stated without the code's slicing *)

EndsWith(c, suffix) ==
    /\ Len(c) >= Len(suffix)
    /\ \A k \in 1..Len(suffix) : c[Len(c) - Len(suffix) + k] = suffix[k]

StartsWith(c, prefix) ==
    /\ Len(c) >= Len(prefix)
    /\ \A k \in 1..Len(prefix) : c[k] = prefix[k]

\* the characters just before the last 11 characters are halo_finder
NamesHaloFinder(c, halo_finder) ==
    /\ Len(c) >= 11 + Len(halo_finder)
    /\ \A k \in 1..Len(halo_finder) : c[Len(c) - 11 - Len(halo_finder) + k] = halo_finder[k]

Plural(catalog_type) ==
    CASE catalog_type = S_halo -> S_halos
      [] catalog_type = S_particle -> S_particles
      [] OTHER -> catalog_type

\* a supplied predicate is one whose argument is not None
Passes(c, kind, simname, halo_finder) ==
    /\ kind # None => EndsWith(c, kind \o S_fits)
    /\ simname # None => StartsWith(c, simname \o S_us)
    /\ halo_finder # None => NamesHaloFinder(c, halo_finder)

Listing(kind) == list_of_catalogs_in_cache(World(halosDir, particlesDir), kind)

\* the filenames of a listing passing the predicates, in listing order
CandidatesOf(listing, kind, simname, halo_finder) ==
    SelectSeq(listing, LAMBDA c : Passes(c, kind, simname, halo_finder))

Candidates(kind, simname, halo_finder) ==
    CandidatesOf(Listing(kind), kind, simname, halo_finder)

\* the candidates of a find_nearest_snapshot_in_cache call
FindCandidates ==
    LET kind == Plural(arg.catalog_type)
    IN Candidates(kind, arg.simname, IF kind = S_particles THEN None ELSE arg.halo_finder)

Found == op = "find_nearest_snapshot_in_cache"
OneOfTwo == (arg.scale_factor = NoneNum) # (arg.redshift = NoneNum)

\* the scale factor a call asks for: a itself, or the a with a * (1 + z) = 1
Requested ==
    IF arg.scale_factor # NoneNum THEN arg.scale_factor
    ELSE CHOOSE a \in {625 * k : k \in 0..16} : a * (100 + arg.redshift) = 1000000

\* the scale factor a file name was formatted from
Embedded(c, simname) ==
    CHOOSE a \in {625 * k : k \in 0..16} \cup {default_scale_factor} :
        StartsWith(c, simname \o S_a \o Format4f(a) \o S_us)

Distance(c) == Abs(Embedded(c, arg.simname) - Requested)

\* C2 as claimed: with exactly one of scale_factor and redshift and no
\* candidate, find_nearest_snapshot_in_cache returns (None, None) after a
\* warning and does not raise, whatever the catalog_type.
C2_EmptyReturnsNoneForEveryKind ==
    (Found /\ OneOfTwo /\ FindCandidates = <<>>) =>
        /\ ret = Return(NoneNone)
        /\ Len(warned) = 1

\* C2 as amended: the same for catalog_type 'halo', 'halos', 'particle' and
\* 'particles'; for a catalog_type of None the call raises ValueError and
\* warns of nothing.
C2_EmptyReturnsNoneForKnownKinds ==
    (Found /\ OneOfTwo /\ FindCandidates = <<>>) =>
        IF Plural(arg.catalog_type) \in {S_halos, S_particles}
        THEN /\ ret = Return(NoneNone)
             /\ Len(warned) = 1
             /\ warned[1] = (IF Plural(arg.catalog_type) = S_halos
                             THEN "zero halo catalogs" ELSE "zero particle catalogs")
        ELSE /\ ret = Raise("ValueError")
             /\ warned = <<>>

C2_Witness ==
    /\ Found /\ OneOfTwo
    /\ arg.catalog_type = S_particle
    /\ particlesDir # <<>>
    /\ FindCandidates = <<>>
    /\ ret = Return(NoneNone)

\* C3: with exactly one of scale_factor and redshift and at least one
\* candidate, find_nearest_snapshot_in_cache returns the first candidate, in
\* listing order, whose embedded scale factor is nearest to the request,
\* together with that scale factor, however far it is, and warns exactly when
\* the distance exceeds the tolerance.
C3_NearestFirstAnyDistance ==
    (Found /\ OneOfTwo /\ FindCandidates # <<>>) =>
        LET cands == FindCandidates
        IN /\ ret.status = "return"
           /\ \E i \in 1..Len(cands) :
                /\ ret.value.filename = cands[i]
                /\ ret.value.snapshot = Embedded(cands[i], arg.simname)
                /\ \A j \in 1..Len(cands) : Distance(cands[i]) <= Distance(cands[j])
                /\ \A j \in 1..(i - 1) : Distance(cands[j]) > Distance(cands[i])
                /\ warned = IF Distance(cands[i]) > scale_factor_difference_tol
                            THEN <<"closest match">> ELSE <<>>

\* two candidates equally near and beyond the tolerance: the first is returned
C3_Witness ==
    /\ Found /\ OneOfTwo
    /\ Len(FindCandidates) >= 2
    /\ Distance(FindCandidates[1]) = Distance(FindCandidates[2])
    /\ Distance(FindCandidates[1]) > scale_factor_difference_tol
    /\ ret.status = "return"
    /\ ret.value.filename = FindCandidates[1]
    /\ warned # <<>>

C5_ExactlyOneOfScaleFactorRedshift ==
    Found =>
        /\ ~OneOfTwo => (ret = Raise("IOError") /\ listed = 0 /\ warned = <<>>)
        /\ (arg.scale_factor = NoneNum /\ arg.redshift # NoneNum) =>
              LET same == find_nearest_snapshot_in_cache(World(halosDir, particlesDir),
                              arg.catalog_type, Requested, NoneNum, arg.simname, arg.halo_finder)
              IN /\ ret.status = same.out.status
                 /\ ret.exc = same.out.exc
                 /\ ret.status = "return" => ret.value = same.out.value
                 /\ warned = same.w.warned
                 /\ listed = 1

C5_Witness ==
    /\ Found
    /\ arg.scale_factor = NoneNum /\ arg.redshift = 100
    /\ ret.status = "return"
    /\ ret.value.filename = HaloFilename(S_bolshoi, 5000, S_rockstar)
    /\ ret.value.snapshot = 5000
    /\ Len(halosDir) = 2

-----------------------------------------------------------------------------
(* Properties of the loader.  In a step formula the unprimed directories    *)
(* are the cache before the call and the primed variables its outcome.      *)

LoadStep == op' = "load_catalog"
BulkStep == op' = "download_all_default_catalogs"

Has(dir, filename) == \E i \in 1..Len(dir) : dir[i].name = filename
Content(dir, filename) == dir[CHOOSE i \in 1..Len(dir) : dir[i].name = filename].data
DirNamed(dirname) == IF dirname = "particles" THEN particlesDir ELSE halosDir

\* the file a load_catalog call is about
Asked(a) == IF a.filename = None THEN default_halo_catalog_filename ELSE a.filename
IsDefault(filename) ==
    filename \in {default_halo_catalog_filename, default_particle_catalog_filename}

\* the cache directory of a default catalog's kind, after the call
KindDirAfter(filename) ==
    IF filename = default_halo_catalog_filename THEN halosDir' ELSE particlesDir'
KindDirName(filename) ==
    IF filename = default_halo_catalog_filename THEN "halos" ELSE "particles"

\* C1: a load_catalog call with download_yn=True for an absent file named as
\* either default catalog, the archive answering, raises nothing, opens
\* url/filename, writes the bytes to that name in the cache directory of the
\* matching kind and returns the table read from them.
C1_DefaultsAreDownloaded ==
    [][ (/\ LoadStep
         /\ arg'.download_yn
         /\ ~Has(DirNamed(arg'.dirname), Asked(arg'))
         /\ IsDefault(Asked(arg'))
         /\ arg'.env.halos = "ok")
        => (/\ ret' = Return(<<"Table", "archive">>)
            /\ fetched' = << <<arg'.url, Asked(arg')>> >>
            /\ written' = << <<KindDirName(Asked(arg')), Asked(arg')>> >>
            /\ Has(KindDirAfter(Asked(arg')), Asked(arg'))
            /\ Content(KindDirAfter(Asked(arg')), Asked(arg')) = "archive") ]_vars

\* C6: a load_catalog call for a file that exists in dirname yields what
\* reading that file yields (its table), opens no URL and writes nothing,
\* whatever download_yn and the filename are.
C6_PresentFileIsOnlyRead ==
    [][ (LoadStep /\ Has(DirNamed(arg'.dirname), Asked(arg')))
        => (/\ ret' = (IF Content(DirNamed(arg'.dirname), Asked(arg')) = "empty"
                       THEN Raise("IOError")
                       ELSE Return(<<"Table", Content(DirNamed(arg'.dirname), Asked(arg'))>>))
            /\ fetched' = <<>>
            /\ written' = <<>>
            /\ halosDir' = halosDir
            /\ particlesDir' = particlesDir) ]_vars

C6_Witness ==
    /\ op = "load_catalog"
    /\ arg.download_yn
    /\ arg.filename = default_particle_catalog_filename
    /\ ret = Return(<<"Table", "cached">>)
    /\ fetched = <<>>

\* C7: a load_catalog call for an absent file opens a URL or writes a file
\* only if download_yn is true and the file is named as a default catalog;
\* with download_yn=False it returns None; with download_yn=True and another
\* name it raises IOError.
C7_AbsentFileWithoutDownload ==
    [][ (LoadStep /\ ~Has(DirNamed(arg'.dirname), Asked(arg')))
        => (/\ (fetched' # <<>> \/ written' # <<>>
                  \/ halosDir' # halosDir \/ particlesDir' # particlesDir)
                 => (arg'.download_yn /\ IsDefault(Asked(arg')))
            /\ ~arg'.download_yn => ret' = Return(None)
            /\ (arg'.download_yn /\ ~IsDefault(Asked(arg'))) => ret' = Raise("IOError")) ]_vars

C7_Witness ==
    /\ op = "load_catalog"
    /\ arg.download_yn
    /\ arg.filename = HaloFilename(S_bolshoi, 7500, S_rockstar)
    /\ ~Has(DirNamed(arg.dirname), arg.filename)
    /\ ret = Raise("IOError")
    /\ fetched = <<>>
    /\ written = <<>>

HaloURL == <<aph_web_location, default_halo_catalog_filename>>
ParticleURL == <<aph_web_location, default_particle_catalog_filename>>

\* every file of dir is in after, with its content and in the same order
Kept(dir, after) ==
    /\ \A i \in 1..Len(dir) :
          Has(after, dir[i].name) /\ Content(after, dir[i].name) = dir[i].data
    /\ SelectSeq(after, LAMBDA f : Has(dir, f.name)) = dir

BulkNeverOverwrites ==
    /\ Kept(halosDir, halosDir')
    /\ Kept(particlesDir, particlesDir')
    /\ \A i \in 1..Len(written') : ~Has(DirNamed(written'[i][1]), written'[i][2])

BulkEndsWithBoth ==
    ret'.status = "return" =>
        /\ Has(halosDir', default_halo_catalog_filename)
        /\ Has(particlesDir', default_particle_catalog_filename)

\* a call right after one that returned
BulkAgainIsIdle ==
    (op = "download_all_default_catalogs" /\ ret.status = "return") =>
        /\ fetched' = <<>>
        /\ written' = <<>>
        /\ halosDir' = halosDir
        /\ particlesDir' = particlesDir
        /\ ret'.status = "return"

\* C10 as claimed: download_all_default_catalogs opens the default halo
\* catalog's URL exactly when that file is absent from the halos directory and
\* the default particle catalog's URL exactly when that file is absent from
\* the particles directory, overwrites no file, ends with both files present
\* when it returns, and does nothing when called right after a call that
\* returned.
C10_BulkFetchesEachAbsentDefault ==
    [][ BulkStep
        => (/\ (\E i \in 1..Len(fetched') : fetched'[i] = HaloURL)
                  = ~Has(halosDir, default_halo_catalog_filename)
            /\ (\E i \in 1..Len(fetched') : fetched'[i] = ParticleURL)
                  = ~Has(particlesDir, default_particle_catalog_filename)
            /\ BulkNeverOverwrites
            /\ BulkEndsWithBoth
            /\ BulkAgainIsIdle) ]_vars

\* C10 as amended: the particle catalog's URL is opened exactly when that
\* file is absent and the halo step did not raise (a halo fetch that fails
\* ends the call before the particle step); the rest as claimed.
C10_BulkFetchesAbsentDefaultsInOrder ==
    [][ BulkStep
        => LET habsent == ~Has(halosDir, default_halo_catalog_filename)
               pabsent == ~Has(particlesDir, default_particle_catalog_filename)
               hfails == habsent /\ arg'.env.halos # "ok"
           IN /\ fetched' = (IF habsent THEN <<HaloURL>> ELSE <<>>)
                              \o (IF pabsent /\ ~hfails THEN <<ParticleURL>> ELSE <<>>)
              /\ hfails => ret'.status = "raise"
              /\ BulkNeverOverwrites
              /\ BulkEndsWithBoth
              /\ BulkAgainIsIdle ]_vars

\* the halo catalog was there, the particle catalog is fetched
C10_Witness ==
    /\ op = "download_all_default_catalogs"
    /\ ret.status = "return"
    /\ fetched = <<ParticleURL>>
    /\ written = << <<"particles", default_particle_catalog_filename>> >>
    /\ Has(particlesDir, default_particle_catalog_filename)
    /\ Content(particlesDir, default_particle_catalog_filename) = "archive"
    /\ Content(halosDir, default_halo_catalog_filename) = "cached"

-----------------------------------------------------------------------------
(* Properties of the facade *)

\* the first candidate of a listing formatted from exactly scale factor a, or
\* None
ExactMatch(listing, kind, simname, halo_finder, a) ==
    LET cands == CandidatesOf(listing, kind, simname, halo_finder)
        exact == SelectSeq(cands, LAMBDA c : Embedded(c, simname) = a)
    IN IF exact = <<>> THEN None ELSE exact[1]

\* C9: a processed_snapshot that is constructed resolves, for each kind, to
\* the cached file of exactly the requested scale factor when the locator
\* finds one and to the default filename of the kind otherwise;
\* download_all_default_catalogs is invoked once per kind that falls back
\* when download_yn is true and never otherwise; and with download_yn=False
\* no URL is opened and the cache is left as it was, constructed or not.
C9_FacadeResolvesOrFallsBack ==
    [][ (op' = "processed_snapshot")
        => LET a == arg.scale_factor
               hexact == ExactMatch(Names(halosDir), S_halos, arg.simname, arg.halo_finder, a)
               \* the particle lookup sees the cache after a halo fallback's download
               plisting == IF hexact = None /\ arg.download_yn
                           THEN Names(particlesDir') ELSE Names(particlesDir)
               pexact == ExactMatch(plisting, S_particles, arg.simname, None, a)
               falls == (IF hexact = None THEN 1 ELSE 0) + (IF pexact = None THEN 1 ELSE 0)
           IN /\ ret'.status = "return" =>
                    /\ ret'.value.halo_catalog_filename
                          = (IF hexact = None THEN default_halo_catalog_filename ELSE hexact)
                    /\ ret'.value.particle_catalog_filename
                          = (IF pexact = None THEN default_particle_catalog_filename ELSE pexact)
                    /\ bulk' = (IF arg.download_yn THEN falls ELSE 0)
              /\ ~arg.download_yn =>
                    /\ bulk' = 0
                    /\ fetched' = <<>>
                    /\ written' = <<>>
                    /\ halosDir' = halosDir
                    /\ particlesDir' = particlesDir ]_vars

\* an inexact match (0.75 cached, 0.76 requested) falls back to the default
\* halo catalog without any download
C9_Witness ==
    /\ op = "processed_snapshot"
    /\ arg.scale_factor = 7600 /\ arg.simname = S_bolshoi /\ arg.halo_finder = S_rockstar
    /\ ~arg.download_yn
    /\ Has(halosDir, HaloFilename(S_bolshoi, 7500, S_rockstar))
    /\ ret.status = "return"
    /\ ret.value.halo_catalog_filename = default_halo_catalog_filename
    /\ ~Has(halosDir, default_halo_catalog_filename)
    /\ fetched = <<>>

-----------------------------------------------------------------------------
(* Properties of numptcl_to_string *)

Numbered == op = "numptcl_to_string"

\* the least p with numptcl / 10^p rounding below 10
LeastPower(n) ==
    CHOOSE p \in 0..(Len(n) + 1) :
        /\ reduced_numptcl(n, p) < 10
        /\ \A q \in 0..(p - 1) : ~(reduced_numptcl(n, q) < 10)

\* d 'e' p as the claim describes it
Encoded(n, out) ==
    LET p == LeastPower(n)
        d == reduced_numptcl(n, p)
    IN /\ 1 <= d /\ d <= 9
       /\ out = <<DigitChar(d)>> \o S_e \o PyStrInt(p)

\* the same from the digits: the leading digit, raised by one when the rest
\* is more than half a unit of it, or exactly half and the digit is odd; a
\* leading 9 raised becomes 1 with one more power
NearestLeadingDigit(n, out) ==
    LET more == Len(n) >= 2 /\ (n[2] > 5 \/ (n[2] = 5 /\ \E k \in 3..Len(n) : n[k] # 0))
        half == Len(n) >= 2 /\ n[2] = 5 /\ \A k \in 3..Len(n) : n[k] = 0
        lead == n[1] + (IF more \/ (half /\ n[1] % 2 = 1) THEN 1 ELSE 0)
    IN out = IF lead <= 9
             THEN <<DigitChar(lead)>> \o S_e \o PyStrInt(Len(n) - 1)
             ELSE <<"1">> \o S_e \o PyStrInt(Len(n))

\* n < 10^10 and n < 9.5 * 10^9
Below1e10(n) == Len(n) <= 10
Below95e8(n) == Len(n) < 10 \/ (Len(n) = 10 /\ 10 * n[1] + n[2] < 95)

-----------------------------------------------------------------------------
(* Remote fetch failure *)

\* the call ended with the error of the transport: urlopen or read raised
FetchFailed(r) == r.status = "raise" /\ r.exc \in {"URLError", "socket.error"}

\* the file whose fetch ended the call
FailedName == fetched'[Len(fetched')][2]

\* C11: when a remote fetch fails during load_catalog or
\* download_all_default_catalogs (opening the URL or reading the body
\* raises), the error reaches the caller and the file, absent before the
\* call, is still absent from the cache after it; so the same call made
\* again right after attempts the same fetch again.
C11_FailedFetchLeavesNoFile ==
    [][ /\ ( /\ LoadStep \/ BulkStep
             /\ FetchFailed(ret')
             /\ ~Has(DirNamed(KindDirName(FailedName)), FailedName) )
           => ~Has(KindDirAfter(FailedName), FailedName)
        /\ ( /\ op \in {"load_catalog", "download_all_default_catalogs"}
             /\ FetchFailed(ret)
             /\ op' = op
             /\ arg' = arg )
           => (\E i \in 1..Len(fetched') : fetched'[i] = fetched[Len(fetched)]) ]_vars

====
